---- MODULE Spec2Model ----
(***************************************************************************)
(* Model of the job-dispatch client (src/src/client/client.py and          *)
(* src/src/client/jobs.py): JobClient construction, run_job with its retry *)
(* loop, _check_response, the per-variant process_inputs /                 *)
(* process_outputs, and the health probe.                                  *)
(***************************************************************************)
EXTENDS Integers, Sequences, FiniteSets, TLC

VARIABLES client, ctor, health, pc, input_data, retry, attempt, files,
          form_data, response, result, error, log

vars == <<client, ctor, health, pc, input_data, retry, attempt, files,
          form_data, response, result, error, log>>

-----------------------------------------------------------------------------
(* Bounds and program constants *)

MaxRetry == 3
\* The largest retry budget of the calls that run concurrently.
MaxConcRetry == 2

DefaultTimeout == 600
PostTimeout == 600
RetryDelay == 2
StatusOK == 200

\* Threads that may call run_job on the one client instance.
Callers == {1, 2}
\* The callers that run under the sequential specification Spec.
SeqCallers == {1}

\* Python None where a scalar, an image or bytes could stand.
None == "None"
\* Python None where a dict could stand (records compare with records only).
NoneObj == [is_none |-> TRUE]
Absent == "<absent>"
ServerUrl == "http://server"

\* max_timeout values a caller may configure (the default and another one).
Timeouts == {DefaultTimeout, 30}
\* Retry budgets a caller may pass: none or less, up to MaxRetry attempts.
RetryBudgets == (-1)..MaxRetry

-----------------------------------------------------------------------------
(* Job variant catalog *)

FaceJob == "FaceJob"
HandsFixJob == "HandsFixJob"
MaskJob == "MaskJob"
ModelGenerationJob == "ModelGenerationJob"
RetouchJob == "RetouchJob"
TryOnJob == "TryOnJob"

JobTypes == {"face_job", "handsfix_job", "mask_job", "model_generation_job",
             "retouch_job", "tryon_job"}

\* Tags a caller may pass to the constructor, registered or not.
JobTags == JobTypes \cup {"upscale_job", "FaceJob"}

job_mapping ==
  [t \in JobTypes |->
     CASE t = "face_job" -> FaceJob
       [] t = "handsfix_job" -> HandsFixJob
       [] t = "mask_job" -> MaskJob
       [] t = "model_generation_job" -> ModelGenerationJob
       [] t = "retouch_job" -> RetouchJob
       [] t = "tryon_job" -> TryOnJob]

-----------------------------------------------------------------------------
(* Errors: an exception is a record of its type, message and stack trace *)

Exc(type, msg) == [type |-> type, msg |-> msg, stack_trace |-> Absent]
NoError == Exc("NoError", <<>>)

\* The text of the assertion messages of process_inputs:
\* "Missing '<key>' key in input data".
MissingMsg(key) == <<"Missing", key, "key in input data">>

-----------------------------------------------------------------------------
(* ImageConverter *)

PilImg == "PIL.Image"
PngBytes == "PNG bytes"

\* to_bytes for the two kinds of value the callers pass here: an image object
\* is saved as PNG bytes; None matches no isinstance test and is a ValueError.
to_bytes(image_input) ==
  IF image_input = PilImg
    THEN [ok |-> TRUE, bytes |-> PngBytes, error |-> NoError]
    ELSE [ok |-> FALSE, bytes |-> None,
          error |-> Exc("ValueError", <<"Unsupported input type", image_input>>)]

-----------------------------------------------------------------------------
(* Encoders: process_inputs of the six job classes *)

Keys == {"model_img", "cloth_img", "mask_img", "category", "generation_type",
         "inpaint_params", "prompt", "seed"}

\* dict.get(key, default)
Get(d, key, default) == IF key \in DOMAIN d THEN d[key] ELSE default

\* json.dumps: the JSON text of an object, not the object itself.
json_dumps(obj) == [json |-> obj]

Encoded(fs, fd) == [ok |-> TRUE, files |-> fs, form_data |-> fd, error |-> NoError]
EncodeFailed(e) ==
  [ok |-> FALSE, files |-> NoneObj, form_data |-> NoneObj, error |-> e]

\* Mutant of AssertedKeys: FaceJob.process_inputs without its last assert.
AssertedKeys_NoPromptAssert(job_class) ==
  CASE job_class = FaceJob -> <<"model_img", "generation_type", "inpaint_params">>
    [] job_class = MaskJob -> <<"category", "model_img">>
    [] job_class = TryOnJob -> <<"category", "model_img", "cloth_img", "mask_img">>
    [] job_class = HandsFixJob -> <<"model_img">>
    [] job_class = RetouchJob -> <<"model_img">>
    [] job_class = ModelGenerationJob -> <<"prompt">>

\* The keys each process_inputs asserts, in the order of its assert statements.
AssertedKeys(job_class) ==
  CASE job_class = FaceJob ->
         <<"model_img", "generation_type", "inpaint_params", "prompt">>
    [] job_class = MaskJob -> <<"category", "model_img">>
    [] job_class = TryOnJob -> <<"category", "model_img", "cloth_img", "mask_img">>
    [] job_class = HandsFixJob -> <<"model_img">>
    [] job_class = RetouchJob -> <<"model_img">>
    [] job_class = ModelGenerationJob -> <<"prompt">>

\* The asserts run in order: the first asserted key that is absent raises.
FailedAsserts(job_class, input) ==
  {i \in 1..Len(AssertedKeys(job_class)) :
     AssertedKeys(job_class)[i] \notin DOMAIN input}

FirstFailedAssert(job_class, input) ==
  CHOOSE i \in FailedAsserts(job_class, input) :
    \A j \in FailedAsserts(job_class, input) : i <= j

FilePart(filename, content) == <<filename, content, "image/png">>

FaceJob_process_inputs(input) ==
  LET model_img == to_bytes(Get(input, "model_img", None))
      generation_data == [inpaint_params |-> Get(input, "inpaint_params", None),
                          generation_type |-> Get(input, "generation_type", None),
                          prompt |-> Get(input, "prompt", None)]
  IN IF ~model_img.ok THEN EncodeFailed(model_img.error)
     ELSE Encoded([model_img_buffer |-> FilePart("model.png", model_img.bytes)],
                  [generation_data |-> json_dumps(generation_data)])

MaskJob_process_inputs(input) ==
  LET model_img == to_bytes(Get(input, "model_img", None))
      generation_data == [category |-> Get(input, "category", None)]
  IN IF ~model_img.ok THEN EncodeFailed(model_img.error)
     ELSE Encoded([model_img_buffer |-> FilePart("model.png", model_img.bytes)],
                  [generation_data |-> json_dumps(generation_data)])

\* Mutant of TryOnJob_process_inputs: the mask is converted without the
\* `is not None` test.
TryOnJob_process_inputs_NoNullCheck(input) ==
  LET model_img == to_bytes(Get(input, "model_img", None))
      cloth_img == to_bytes(Get(input, "cloth_img", None))
      mask_img == to_bytes(Get(input, "mask_img", None))
      generation_data == [category |-> Get(input, "category", None)]
  IN IF ~model_img.ok THEN EncodeFailed(model_img.error)
     ELSE IF ~cloth_img.ok THEN EncodeFailed(cloth_img.error)
     ELSE IF ~mask_img.ok THEN EncodeFailed(mask_img.error)
     ELSE Encoded([model_img_buffer |-> FilePart("model.png", model_img.bytes),
                   cloth_img_buffer |-> FilePart("cloth.png", cloth_img.bytes),
                   mask_img_buffer |-> FilePart("mask.png", mask_img.bytes)],
                  [generation_data |-> json_dumps(generation_data)])

TryOnJob_process_inputs(input) ==
  LET model_img == to_bytes(Get(input, "model_img", None))
      cloth_img == to_bytes(Get(input, "cloth_img", None))
      mask_img == IF Get(input, "mask_img", None) # None
                    THEN to_bytes(Get(input, "mask_img", None))
                    ELSE [ok |-> TRUE, bytes |-> None, error |-> NoError]
      generation_data == [category |-> Get(input, "category", None)]
  IN IF ~model_img.ok THEN EncodeFailed(model_img.error)
     ELSE IF ~cloth_img.ok THEN EncodeFailed(cloth_img.error)
     ELSE IF ~mask_img.ok THEN EncodeFailed(mask_img.error)
     ELSE Encoded([model_img_buffer |-> FilePart("model.png", model_img.bytes),
                   cloth_img_buffer |-> FilePart("cloth.png", cloth_img.bytes),
                   mask_img_buffer |-> FilePart("mask.png", mask_img.bytes)],
                  [generation_data |-> json_dumps(generation_data)])

\* Mutant of HandsFixJob_process_inputs: an empty metadata object is sent.
HandsFixJob_process_inputs_EmptyData(input) ==
  LET model_img == to_bytes(Get(input, "model_img", None))
  IN IF ~model_img.ok THEN EncodeFailed(model_img.error)
     ELSE Encoded([model_img_buffer |-> FilePart("model.png", model_img.bytes)],
                  [generation_data |-> json_dumps(<<>>)])

HandsFixJob_process_inputs(input) ==
  LET model_img == to_bytes(Get(input, "model_img", None))
  IN IF ~model_img.ok THEN EncodeFailed(model_img.error)
     ELSE Encoded([model_img_buffer |-> FilePart("model.png", model_img.bytes)],
                  NoneObj)

RetouchJob_process_inputs(input) ==
  LET model_img == to_bytes(Get(input, "model_img", None))
      generation_data == [seed |-> Get(input, "seed", None)]
  IN IF ~model_img.ok THEN EncodeFailed(model_img.error)
     ELSE Encoded([model_img_buffer |-> FilePart("model.png", model_img.bytes)],
                  [generation_data |-> json_dumps(generation_data)])

ModelGenerationJob_process_inputs(input) ==
  LET generation_data == [prompt |-> Get(input, "prompt", None),
                          seed |-> Get(input, "seed", None)]
  IN Encoded(NoneObj, [generation_data |-> json_dumps(generation_data)])

\* job_class.process_inputs(input_data=...): the asserts, then the encoding.
process_inputs(job_class, input) ==
  IF FailedAsserts(job_class, input) # {}
    THEN EncodeFailed(Exc("AssertionError",
           MissingMsg(AssertedKeys(job_class)[FirstFailedAssert(job_class, input)])))
    ELSE CASE job_class = FaceJob -> FaceJob_process_inputs(input)
           [] job_class = MaskJob -> MaskJob_process_inputs(input)
           [] job_class = TryOnJob -> TryOnJob_process_inputs(input)
           [] job_class = HandsFixJob -> HandsFixJob_process_inputs(input)
           [] job_class = RetouchJob -> RetouchJob_process_inputs(input)
           [] job_class = ModelGenerationJob ->
                ModelGenerationJob_process_inputs(input)

-----------------------------------------------------------------------------
(* Transport outcomes: what requests.post / requests.get can produce *)

\* Exceptions requests raises instead of returning a response.
TransportExceptions == {"ConnectionError", "Timeout"}

Statuses == {StatusOK, 500}

\* Values of the `result` field of a body: the base64 text of a PNG, the
\* base64 text of bytes that are no image, and text that is not base64.
B64Png == "base64(PNG bytes)"
B64Junk == "base64(junk bytes)"
NotB64 == "not base64"
JunkBytes == "junk bytes"
ResultValues == {Absent, B64Png, B64Junk, NotB64}

\* A body is either JSON text of an object with optional error, stack_trace
\* and result keys, or text that is not JSON.
JsonBodies ==
  [is_json : {TRUE}, error : {Absent, "server error"},
   stack_trace : {Absent, "server traceback"}, result : ResultValues]
TextBody ==
  [is_json |-> FALSE, error |-> Absent, stack_trace |-> Absent, result |-> Absent]
Bodies == JsonBodies \cup {TextBody}

NoResponse ==
  [raised |-> None, status_code |-> 0, body |-> TextBody]
Responses == [raised : {None}, status_code : Statuses, body : Bodies]
Outcomes ==
  Responses \cup [raised : TransportExceptions, status_code : {0}, body : {TextBody}]

-----------------------------------------------------------------------------
(* Response validator and decoder *)

\* _check_response: for a non-200 status it logs the error and the stack
\* trace of a JSON body, or the raw text; it returns normally in every case.
_check_response(resp) ==
  [raised |-> NoError,
   logged |->
     IF resp.status_code # StatusOK
       THEN IF resp.body.is_json
              THEN <<IF resp.body.error # Absent
                       THEN resp.body.error ELSE "Unknown error">>
                   \o (IF resp.body.stack_trace # Absent
                         THEN <<resp.body.stack_trace>> ELSE <<>>)
              ELSE <<"Raw server response">>
       ELSE <<>>]

\* base64.b64decode
b64decode(text) ==
  CASE text = None -> [ok |-> FALSE, bytes |-> None,
                       error |-> Exc("TypeError", <<"argument should be bytes-like">>)]
    [] text = B64Png -> [ok |-> TRUE, bytes |-> PngBytes, error |-> NoError]
    [] text = B64Junk -> [ok |-> TRUE, bytes |-> JunkBytes, error |-> NoError]
    [] OTHER -> [ok |-> FALSE, bytes |-> None,
                 error |-> Exc("binascii.Error", <<"Incorrect padding">>)]

\* ImageConverter.from_bytes with target_type "PIL": Image.open of the bytes.
from_bytes(image_bytes) ==
  IF image_bytes = PngBytes
    THEN [ok |-> TRUE, image |-> PilImg, error |-> NoError]
    ELSE [ok |-> FALSE, image |-> None,
          error |-> Exc("UnidentifiedImageError", <<"cannot identify image file">>)]

\* process_outputs, the same in the six job classes: response.json(),
\* .get("result"), b64decode, from_bytes.
process_outputs(resp) ==
  IF ~resp.body.is_json
    THEN [ok |-> FALSE, image |-> None,
          error |-> Exc("JSONDecodeError", <<"Expecting value">>)]
    ELSE LET res == IF resp.body.result = Absent THEN None ELSE resp.body.result
             decoded_result == b64decode(res)
         IN IF ~decoded_result.ok
              THEN [ok |-> FALSE, image |-> None, error |-> decoded_result.error]
              ELSE from_bytes(decoded_result.bytes)

-----------------------------------------------------------------------------
(* Inputs a caller may pass to run_job *)

ValuesOf(key) ==
  CASE key = "model_img" -> {PilImg, None}
    [] key = "cloth_img" -> {PilImg}
    [] key = "mask_img" -> {PilImg, None}
    [] key = "category" -> {"upper_body"}
    [] key = "generation_type" -> {"inpaint"}
    [] key = "inpaint_params" -> {"params"}
    [] key = "prompt" -> {"a prompt"}
    [] key = "seed" -> {"42"}

AllValues == UNION {ValuesOf(k) : k \in Keys}

\* The keys process_inputs of a job class reads.
KeysRead(job_class) ==
  {AssertedKeys(job_class)[i] : i \in 1..Len(AssertedKeys(job_class))}
    \cup (IF job_class \in {RetouchJob, ModelGenerationJob} THEN {"seed"} ELSE {})

\* Every dict over a subset of the keys the job class reads.
Inputs(job_class) ==
  UNION {{f \in [S -> AllValues] : \A k \in S : f[k] \in ValuesOf(k)} :
           S \in SUBSET KeysRead(job_class)}

-----------------------------------------------------------------------------
(* State *)

NoClient ==
  [constructed |-> FALSE, job_class |-> None, job_type |-> None,
   server_url |-> None, max_timeout |-> 0]

NoCtor == [called |-> FALSE, job_type |-> None, error |-> NoError]

NoHealth == [called |-> FALSE, outcome |-> NoResponse, ret |-> FALSE,
             raised |-> NoError]

\* Events a run_job call produces, in order: encodes, POSTs, sleeps.
EncodeEvent == [ev |-> "encode", url |-> None, timeout |-> 0, cls |-> None]
SendEvent(url, timeout, cls) ==
  [ev |-> "send", url |-> url, timeout |-> timeout, cls |-> cls]
SleepEvent(secs) == [ev |-> "sleep", url |-> None, timeout |-> secs, cls |-> None]

\* How the server answered a POST, by status alone.
OutcomeClass(outcome) ==
  IF outcome.raised # None THEN "exception"
  ELSE IF outcome.status_code = StatusOK THEN "200" ELSE "non200"

Init ==
  /\ client = NoClient
  /\ ctor = NoCtor
  /\ health = NoHealth
  /\ pc = [c \in Callers |-> "idle"]
  /\ input_data = [c \in Callers |-> <<>>]
  /\ retry = [c \in Callers |-> 0]
  /\ attempt = [c \in Callers |-> 0]
  /\ files = [c \in Callers |-> NoneObj]
  /\ form_data = [c \in Callers |-> NoneObj]
  /\ response = [c \in Callers |-> NoResponse]
  /\ result = [c \in Callers |-> None]
  /\ error = [c \in Callers |-> NoError]
  /\ log = [c \in Callers |-> <<>>]

-----------------------------------------------------------------------------
(* JobClient.__init__ *)

\* assert job_type in job_mapping
ValidJobType(job_type) == job_type \in DOMAIN job_mapping

\* Mutant of JobClient_init: no assert, an unknown tag falls back to FaceJob.
JobClient_init_Fallback(server_url, job_type, max_timeout) ==
  /\ ~ctor.called
  /\ client' = [constructed |-> TRUE,
                job_class |-> IF ValidJobType(job_type)
                                THEN job_mapping[job_type] ELSE FaceJob,
                job_type |-> job_type,
                server_url |-> server_url,
                max_timeout |-> max_timeout]
  /\ ctor' = [called |-> TRUE, job_type |-> job_type, error |-> NoError]
  /\ UNCHANGED <<health, pc, input_data, retry, attempt, files, form_data,
                 response, result, error, log>>

JobClient_init(server_url, job_type, max_timeout) ==
  /\ ~ctor.called
  /\ IF ValidJobType(job_type)
       THEN /\ client' = [constructed |-> TRUE,
                          job_class |-> job_mapping[job_type],
                          job_type |-> job_type,
                          server_url |-> server_url,
                          max_timeout |-> max_timeout]
            /\ ctor' = [called |-> TRUE, job_type |-> job_type, error |-> NoError]
       ELSE /\ client' = client
            /\ ctor' = [called |-> TRUE, job_type |-> job_type,
                        error |-> Exc("AssertionError",
                                      <<"Invalid job type", job_type>>)]
  /\ UNCHANGED <<health, pc, input_data, retry, attempt, files, form_data,
                 response, result, error, log>>

-----------------------------------------------------------------------------
(* JobClient._check_health *)

HealthOutcomes ==
  [raised : {None}, status_code : Statuses \cup {404}, body : {TextBody}]
    \cup [raised : TransportExceptions \cup {"KeyboardInterrupt"},
          status_code : {0}, body : {TextBody}]

\* Mutant of HealthResult: only a connection error is caught.
HealthResult_ConnectionErrorOnly(outcome) ==
  IF outcome.raised = "ConnectionError"
    THEN [ret |-> FALSE, raised |-> NoError]
    ELSE IF outcome.raised # None
      THEN [ret |-> FALSE, raised |-> Exc(outcome.raised, <<"probe failed">>)]
      ELSE [ret |-> (outcome.status_code = StatusOK), raised |-> NoError]

\* try: return response.status_code == 200; bare except: return False
HealthResult(outcome) ==
  IF outcome.raised # None
    THEN [ret |-> FALSE, raised |-> NoError]
    ELSE [ret |-> (outcome.status_code = StatusOK), raised |-> NoError]

_check_health(outcome) ==
  /\ client.constructed
  /\ ~health.called
  /\ health' = [called |-> TRUE, outcome |-> outcome,
                ret |-> HealthResult(outcome).ret,
                raised |-> HealthResult(outcome).raised]
  /\ UNCHANGED <<client, ctor, pc, input_data, retry, attempt, files, form_data,
                 response, result, error, log>>

-----------------------------------------------------------------------------
(* JobClient.run_job *)

\* The exception types `except Exception` catches: every type the try body
\* can raise here is a subclass of Exception.
ExceptionSubclasses ==
  TransportExceptions \cup {"TypeError", "binascii.Error", "JSONDecodeError",
                            "UnidentifiedImageError", "AssertionError",
                            "ValueError"}

\* Mutant of Caught: only the exceptions of requests are caught.
Caught_RequestsOnly(e) == e.type \in TransportExceptions

Caught(e) == e.type \in ExceptionSubclasses

\* The body of the try block once requests.post has produced its outcome:
\* _check_response, then process_outputs.
TryBody(outcome) ==
  IF outcome.raised # None
    THEN [ok |-> FALSE, image |-> None,
          error |-> Exc(outcome.raised, <<"transport failure">>)]
    ELSE IF _check_response(outcome).raised # NoError
      THEN [ok |-> FALSE, image |-> None,
            error |-> _check_response(outcome).raised]
      ELSE process_outputs(outcome)

\* Mutant of LoopContinues: the loop test is off by one.
LoopContinues_OffByOne(a, n) == a <= n

\* The loop condition `while attempt < retry`.
LoopContinues(a, n) == a < n

\* The timeout argument of requests.post.
post_timeout(cl) == PostTimeout

\* Mutant of run_job: the first attempt is made before the budget is tested.
run_job_AtLeastOnce(c, input, n) ==
  /\ client.constructed
  /\ pc[c] = "idle"
  /\ LET enc == process_inputs(client.job_class, input)
     IN /\ input_data' = [input_data EXCEPT ![c] = input]
        /\ retry' = [retry EXCEPT ![c] = n]
        /\ attempt' = [attempt EXCEPT ![c] = 0]
        /\ log' = [log EXCEPT ![c] = <<EncodeEvent>>]
        /\ files' = [files EXCEPT ![c] = enc.files]
        /\ form_data' = [form_data EXCEPT ![c] = enc.form_data]
        /\ IF ~enc.ok
             THEN /\ pc' = [pc EXCEPT ![c] = "raised"]
                  /\ error' = [error EXCEPT ![c] = enc.error]
             ELSE /\ pc' = [pc EXCEPT ![c] = "attempting"]
                  /\ error' = error
  /\ UNCHANGED <<client, ctor, health, response, result>>

\* The call: process_inputs runs first, outside the loop and the try; then
\* control reaches the loop test.
run_job(c, input, n) ==
  /\ client.constructed
  /\ pc[c] = "idle"
  /\ LET enc == process_inputs(client.job_class, input)
     IN /\ input_data' = [input_data EXCEPT ![c] = input]
        /\ retry' = [retry EXCEPT ![c] = n]
        /\ attempt' = [attempt EXCEPT ![c] = 0]
        /\ log' = [log EXCEPT ![c] = <<EncodeEvent>>]
        /\ files' = [files EXCEPT ![c] = enc.files]
        /\ form_data' = [form_data EXCEPT ![c] = enc.form_data]
        /\ IF ~enc.ok
             THEN /\ pc' = [pc EXCEPT ![c] = "raised"]
                  /\ error' = [error EXCEPT ![c] = enc.error]
             ELSE /\ pc' = [pc EXCEPT ![c] =
                             IF LoopContinues(0, n) THEN "attempting"
                                                    ELSE "returned"]
                  /\ error' = error
  /\ UNCHANGED <<client, ctor, health, response, result>>

\* Mutant of AttemptLog: process_inputs is called again inside the loop.
AttemptLog_ReEncode(c, outcome) ==
  <<EncodeEvent,
    SendEvent(client.server_url, post_timeout(client), OutcomeClass(outcome))>>

\* What one iteration of the loop does before its outcome is known: the
\* requests.post call and nothing else (no call of process_inputs).
AttemptLog(c, outcome) ==
  <<SendEvent(client.server_url, post_timeout(client), OutcomeClass(outcome))>>

\* Mutant of Attempt: the attempt counter is kept on the instance and so is
\* shared by the calls in progress.
Attempt_SharedCounter(c, outcome) ==
  /\ pc[c] = "attempting"
  /\ LET body == TryBody(outcome)
         next_attempt == attempt[c] + 1
     IN /\ response' = [response EXCEPT ![c] = outcome]
        /\ log' = [log EXCEPT ![c] = @ \o AttemptLog(c, outcome)]
        /\ IF body.ok
             THEN /\ pc' = [pc EXCEPT ![c] = "returned"]
                  /\ result' = [result EXCEPT ![c] = body.image]
                  /\ UNCHANGED <<attempt, error>>
             ELSE /\ attempt' = [d \in Callers |-> next_attempt]
                  /\ error' = [error EXCEPT ![c] = body.error]
                  /\ pc' = [pc EXCEPT ![c] =
                             IF LoopContinues(next_attempt, retry[c])
                               THEN "sleeping" ELSE "raised"]
                  /\ result' = result
  /\ UNCHANGED <<client, ctor, health, input_data, retry, files, form_data>>

\* One iteration of the loop: the POST, the check of the response, the
\* decoding, and the except clause up to the sleep or the re-raise.
Attempt(c, outcome) ==
  /\ pc[c] = "attempting"
  /\ LET body == TryBody(outcome)
         next_attempt == attempt[c] + 1
     IN /\ response' = [response EXCEPT ![c] = outcome]
        /\ log' = [log EXCEPT ![c] = @ \o AttemptLog(c, outcome)]
        /\ IF body.ok
             THEN /\ pc' = [pc EXCEPT ![c] = "returned"]
                  /\ result' = [result EXCEPT ![c] = body.image]
                  /\ UNCHANGED <<attempt, error>>
             ELSE IF Caught(body.error)
               THEN /\ attempt' = [attempt EXCEPT ![c] = next_attempt]
                    /\ error' = [error EXCEPT ![c] = body.error]
                    /\ pc' = [pc EXCEPT ![c] =
                               IF LoopContinues(next_attempt, retry[c])
                                 THEN "sleeping" ELSE "raised"]
                    /\ result' = result
               ELSE /\ pc' = [pc EXCEPT ![c] = "raised"]
                    /\ error' = [error EXCEPT ![c] = body.error]
                    /\ UNCHANGED <<attempt, result>>
  /\ UNCHANGED <<client, ctor, health, input_data, retry, files, form_data>>

\* time.sleep(2) between two attempts.
Sleep(c) ==
  /\ pc[c] = "sleeping"
  /\ log' = [log EXCEPT ![c] = Append(@, SleepEvent(RetryDelay))]
  /\ pc' = [pc EXCEPT ![c] = "attempting"]
  /\ UNCHANGED <<client, ctor, health, input_data, retry, attempt, files,
                 form_data, response, result, error>>

-----------------------------------------------------------------------------
(* Specification: one caller uses the client *)

Construct == \E job_type \in JobTags, max_timeout \in Timeouts :
               JobClient_init(ServerUrl, job_type, max_timeout)
CheckHealth == \E outcome \in HealthOutcomes : _check_health(outcome)
RunJob == /\ client.constructed
          /\ \E c \in SeqCallers :
               /\ pc[c] = "idle"
               /\ \E input \in Inputs(client.job_class), n \in RetryBudgets :
                    run_job(c, input, n)
DoAttempt == \E c \in SeqCallers, outcome \in Outcomes : Attempt(c, outcome)
DoSleep == \E c \in SeqCallers : Sleep(c)

Next == Construct \/ CheckHealth \/ RunJob \/ DoAttempt \/ DoSleep

Spec == Init /\ [][Next]_vars

-----------------------------------------------------------------------------
(* DummyJobClient: the stand-in client of dummy_client.py *)

fake_data ==
  [t \in {"model_generation_job", "mask_job", "tryon_job"} |->
     CASE t = "model_generation_job" -> "data/model.webp"
       [] t = "mask_job" -> "data/mask.webp"
       [] t = "tryon_job" -> "data/tryon.webp"]

fake_time_waiting ==
  [t \in {"model_generation_job", "mask_job", "tryon_job"} |->
     CASE t = "model_generation_job" -> 125
       [] t = "mask_job" -> 7
       [] t = "tryon_job" -> 45]

\* A DummyJobClient instance keeps job_type only; it has no job_class.
IsDummyClient == client.constructed /\ client.job_class = None

DummyJobClient_init(server_url, job_type, max_timeout) ==
  /\ ~ctor.called
  /\ IF job_type \in DOMAIN fake_data
       THEN /\ client' = [constructed |-> TRUE, job_class |-> None,
                          job_type |-> job_type, server_url |-> None,
                          max_timeout |-> 0]
            /\ ctor' = [called |-> TRUE, job_type |-> job_type, error |-> NoError]
       ELSE /\ client' = client
            /\ ctor' = [called |-> TRUE, job_type |-> job_type,
                        error |-> Exc("AssertionError",
                                      <<"Invalid job type", job_type>>)]
  /\ UNCHANGED <<health, pc, input_data, retry, attempt, files, form_data,
                 response, result, error, log>>

\* What one simulated request can do: random.random() < 0.1 or not, the
\* factor random.uniform(0.5, 1.5) drew (its two ends, in halves), and
\* whether Image.open finds the fake data file.
DummyOutcomes == [random_fail : BOOLEAN, halves : {1, 3}, file_found : BOOLEAN]

\* time_to_wait, in whole seconds.
time_to_wait(job_type, outcome) ==
  (fake_time_waiting[job_type] * outcome.halves) \div 2

WaitEvent(secs) == [ev |-> "wait", url |-> None, timeout |-> secs, cls |-> None]

\* The body of the try block of the dummy.
DummyTryBody(outcome) ==
  IF outcome.random_fail
    THEN [ok |-> FALSE, image |-> None,
          error |-> Exc("Exception", <<"Failed to run the job">>)]
    ELSE IF ~outcome.file_found
      THEN [ok |-> FALSE, image |-> None,
            error |-> Exc("FileNotFoundError", <<"No such file or directory">>)]
      ELSE [ok |-> TRUE, image |-> PilImg, error |-> NoError]

\* The loop condition `while attempt < retry` of the dummy.
DummyLoopContinues(a, n) == a < n

\* The call: no encoding, control reaches the loop test at once.
Dummy_run_job(c, input, n) ==
  /\ IsDummyClient
  /\ pc[c] = "idle"
  /\ input_data' = [input_data EXCEPT ![c] = input]
  /\ retry' = [retry EXCEPT ![c] = n]
  /\ attempt' = [attempt EXCEPT ![c] = 0]
  /\ pc' = [pc EXCEPT ![c] =
              IF DummyLoopContinues(0, n) THEN "attempting" ELSE "returned"]
  /\ UNCHANGED <<client, ctor, health, files, form_data, response, result,
                 error, log>>

\* One iteration of the dummy's loop: the simulated request, and the except
\* clause up to the sleep or the re-raise.
Dummy_Attempt(c, outcome) ==
  /\ IsDummyClient
  /\ pc[c] = "attempting"
  /\ LET body == DummyTryBody(outcome)
         next_attempt == attempt[c] + 1
         sent == SendEvent(None, 0, IF body.ok THEN "200" ELSE "exception")
     IN IF body.ok
          THEN /\ log' = [log EXCEPT ![c] =
                            @ \o <<sent, WaitEvent(time_to_wait(client.job_type,
                                                                outcome))>>]
               /\ pc' = [pc EXCEPT ![c] = "returned"]
               /\ result' = [result EXCEPT ![c] = body.image]
               /\ UNCHANGED <<attempt, error>>
          ELSE /\ log' = [log EXCEPT ![c] =
                            @ \o (IF outcome.random_fail
                                    THEN <<sent>>
                                    ELSE <<sent, WaitEvent(time_to_wait(
                                                   client.job_type, outcome))>>)]
               /\ attempt' = [attempt EXCEPT ![c] = next_attempt]
               /\ error' = [error EXCEPT ![c] = body.error]
               /\ pc' = [pc EXCEPT ![c] =
                          IF DummyLoopContinues(next_attempt, retry[c])
                            THEN "sleeping" ELSE "raised"]
               /\ result' = result
  /\ UNCHANGED <<client, ctor, health, input_data, retry, files, form_data,
                 response>>

\* time.sleep(2) between two attempts of the dummy.
Dummy_Sleep(c) ==
  /\ IsDummyClient
  /\ pc[c] = "sleeping"
  /\ log' = [log EXCEPT ![c] = Append(@, SleepEvent(RetryDelay))]
  /\ pc' = [pc EXCEPT ![c] = "attempting"]
  /\ UNCHANGED <<client, ctor, health, input_data, retry, attempt, files,
                 form_data, response, result, error>>

\* Inputs the workflow passes to the dummy (it does not read them).
DummyInputs == {[prompt |-> "a prompt"],
                [model_img |-> PilImg, category |-> "upper_body"]}

-----------------------------------------------------------------------------
(* Specification of the retry loops: one caller runs a job on a client of
   either class; the health probe, which run_job neither calls nor reads, is
   left out *)

DummyConstruct == \E job_type \in JobTags, max_timeout \in Timeouts :
                    DummyJobClient_init(ServerUrl, job_type, max_timeout)
DummyRunJob == \E c \in SeqCallers :
                 \E input \in DummyInputs, n \in RetryBudgets :
                   Dummy_run_job(c, input, n)
DummyAttempt == \E c \in SeqCallers, outcome \in DummyOutcomes :
                  Dummy_Attempt(c, outcome)
DummySleep == \E c \in SeqCallers : Dummy_Sleep(c)

\* Construction and run_job of JobClient, on a JobClient instance.
JobClientStep == ~IsDummyClient /\ (Construct \/ RunJob \/ DoAttempt \/ DoSleep)

NextLoop == JobClientStep \/ DummyConstruct \/ DummyRunJob \/ DummyAttempt
              \/ DummySleep

SpecLoop == Init /\ [][NextLoop]_vars

\* A blocked call resumes: requests.post returns or raises within its
\* timeout, and time.sleep returns.
FairSpecLoop ==
  /\ SpecLoop
  /\ \A c \in SeqCallers :
       /\ WF_vars(\E outcome \in Outcomes : ~IsDummyClient /\ Attempt(c, outcome))
       /\ WF_vars(~IsDummyClient /\ Sleep(c))
       /\ WF_vars(\E outcome \in DummyOutcomes : Dummy_Attempt(c, outcome))
       /\ WF_vars(Dummy_Sleep(c))

-----------------------------------------------------------------------------
(* Specification of concurrent use: two threads call run_job on the same
   JobClient instance and their steps interleave in any order *)

\* One answer of each kind the try body tells apart.
ConcOutcomes ==
  {o \in Outcomes :
     \/ o.raised = "ConnectionError"
     \/ /\ o.raised = None
        /\ o.body.is_json
        /\ o.body.error = Absent
        /\ o.body.stack_trace = Absent
        /\ o.body.result \in {Absent, B64Png}
     \/ /\ o.raised = None
        /\ o.status_code = StatusOK
        /\ ~o.body.is_json}

ConcRetryBudgets == 0..MaxConcRetry

ConcRunJob == /\ client.constructed
              /\ \E c \in Callers :
                   /\ pc[c] = "idle"
                   /\ \E input \in Inputs(client.job_class),
                         n \in ConcRetryBudgets :
                        run_job(c, input, n)
ConcAttempt == \E c \in Callers, outcome \in ConcOutcomes : Attempt(c, outcome)
ConcSleep == \E c \in Callers : Sleep(c)

NextConc == Construct \/ ConcRunJob \/ ConcAttempt \/ ConcSleep

SpecConc == Init /\ [][NextConc]_vars

-----------------------------------------------------------------------------
(* Observations on a call *)

SendsOf(c) == SelectSeq(log[c], LAMBDA e : e.ev = "send")
SleepsOf(c) == SelectSeq(log[c], LAMBDA e : e.ev = "sleep")
NumSends(c) == Len(SendsOf(c))
NumSleeps(c) == Len(SleepsOf(c))
EncodesOf(c) == SelectSeq(log[c], LAMBDA e : e.ev = "encode")
NumEncodes(c) == Len(EncodesOf(c))

Called(c) == pc[c] # "idle"
Terminated(c) == pc[c] \in {"returned", "raised"}

\* The input of the call passes process_inputs of the client's job class.
ValidInput(c) == process_inputs(client.job_class, input_data[c]).ok

\* A response with a status other than 200, whatever its body.
IsNon200(r) == r.raised = None /\ r.status_code # 200

\* A status-200 response whose body carries the base64 text of an image.
IsGood200(r) ==
  r.raised = None /\ r.status_code = 200 /\ r.body.is_json /\ r.body.result = B64Png

\* A status-200 response whose result is missing or is no base64 image.
IsMalformed200(r) == r.raised = None /\ r.status_code = 200 /\ ~IsGood200(r)

-----------------------------------------------------------------------------
(* Claims *)

\* C1: with a valid input and retry = N >= 1, when every POST was answered
\* with a non-200 status the call ends by raising, after exactly N sends, the
\* error of the last attempt; it never returns a result.
C1_Non200ExhaustsBudget ==
  \A c \in Callers :
    (/\ Terminated(c)
     /\ ValidInput(c)
     /\ retry[c] >= 1
     /\ \A i \in 1..NumSends(c) : SendsOf(c)[i].cls = "non200")
    => (/\ pc[c] = "raised"
        /\ NumSends(c) = retry[c]
        /\ error[c] = TryBody(response[c]).error)

\* C2: with retry = 3 and a server that fails on attempts 1 and 2 (non-200
\* status or transport exception) and succeeds on attempt 3, the call returns
\* the decoded image after exactly 3 sends, with one 2-second sleep between
\* attempts 1 and 2 and one between attempts 2 and 3, and none after.
C2_ServerFollowsScript(c) ==
  \A i \in 1..NumSends(c) :
    /\ i <= 2 => SendsOf(c)[i].cls \in {"non200", "exception"}
    /\ i = 3 => IsGood200(response[c])
    /\ i <= 3

C2_FailFailSucceed ==
  \A c \in Callers :
    (/\ Terminated(c)
     /\ ValidInput(c)
     /\ retry[c] = 3
     /\ C2_ServerFollowsScript(c))
    => (/\ pc[c] = "returned"
        /\ result[c] = PilImg
        /\ [i \in 1..Len(log[c]) |-> <<log[c][i].ev, log[c][i].timeout>>]
             = <<<<"encode", 0>>, <<"send", PostTimeout>>, <<"sleep", 2>>,
                 <<"send", PostTimeout>>, <<"sleep", 2>>, <<"send", PostTimeout>>>>)

\* C3: for each job variant, a call whose input lacks a required field of
\* the variant raises before any network call: the message names a missing
\* field (the missing field when only one is missing), and there are zero
\* sends and zero sleeps.
C3_RequiredFields(job_type) ==
  CASE job_type = "face_job" ->
         {"model_img", "generation_type", "inpaint_params", "prompt"}
    [] job_type = "mask_job" -> {"model_img", "category"}
    [] job_type = "tryon_job" -> {"model_img", "cloth_img", "mask_img", "category"}
    [] job_type = "handsfix_job" -> {"model_img"}
    [] job_type = "retouch_job" -> {"model_img"}
    [] job_type = "model_generation_job" -> {"prompt"}

C3_Missing(c) == C3_RequiredFields(client.job_type) \ DOMAIN input_data[c]

C3_MissingFieldFailsFast ==
  \A c \in Callers :
    (Called(c) /\ C3_Missing(c) # {})
    => (/\ pc[c] = "raised"
        /\ error[c].type = "AssertionError"
        /\ \E k \in C3_Missing(c) : error[c].msg = <<"Missing", k, "key in input data">>
        /\ NumSends(c) = 0
        /\ NumSleeps(c) = 0)

C3_Witness ==
  /\ client.job_type = "tryon_job"
  /\ Called(1)
  /\ C3_Missing(1) = {"cloth_img"}
  /\ retry[1] = 3
  /\ error[1].msg = <<"Missing", "cloth_img", "key in input data">>

\* C4: constructing a client with a tag that is not one of the six
\* registered variants raises at construction, produces no client instance,
\* and no network activity (health probe, POST) has happened or can follow.
C4_RegisteredTags ==
  {"face_job", "handsfix_job", "mask_job", "model_generation_job",
   "retouch_job", "tryon_job"}

C4_UnknownTagFailsAtConstruction ==
  (ctor.called /\ ctor.job_type \notin C4_RegisteredTags)
  => (/\ ctor.error.type = "AssertionError"
      /\ ~client.constructed
      /\ ~health.called
      /\ \A c \in Callers : pc[c] = "idle" /\ log[c] = <<>>)

C4_Witness ==
  /\ ctor.called
  /\ ctor.job_type = "upscale_job"
  /\ ctor.error.type = "AssertionError"
  /\ ~client.constructed

\* C5: run_job never returns a result image obtained from a non-200
\* response: when a call has returned after a send, the response it decoded
\* had status 200.
C5_ResultOnlyFrom200 ==
  \A c \in Callers :
    (pc[c] = "returned" /\ NumSends(c) >= 1) => ~IsNon200(response[c])

\* C6: when the budget is exhausted and the last attempt received a non-200
\* response, the error raised is the server error of that response, with the
\* server's error message and, if present, its stack_trace.
C6_ServerErrorSurfaced ==
  \A c \in Callers :
    (pc[c] = "raised" /\ NumSends(c) >= 1 /\ IsNon200(response[c]))
    => (/\ error[c].type = "ServerError"
        /\ response[c].body.error # Absent
             => error[c].msg = <<response[c].body.error>>
        /\ error[c].stack_trace = response[c].body.stack_trace)

\* C7: a status-200 response whose result is missing or is no base64 image
\* fails the attempt in a retryable way: when attempts remain the call goes to
\* sleep and then sends again; the decode error is raised only when the
\* failed attempt was the last one allowed.
C7_DecodeErrors ==
  {"TypeError", "binascii.Error", "UnidentifiedImageError", "JSONDecodeError"}

C7_DecodeFailureRetried ==
  [][\A c \in Callers :
       /\ (pc[c] = "attempting" /\ pc'[c] # "attempting"
             /\ IsMalformed200(response'[c]))
          => IF attempt[c] + 1 < retry[c]
               THEN pc'[c] = "sleeping"
               ELSE pc'[c] = "raised" /\ error'[c].type \in C7_DecodeErrors
       /\ (pc[c] = "sleeping" /\ pc'[c] # "sleeping")
          => (pc'[c] = "attempting" /\ NumSleeps(c)' = NumSleeps(c) + 1)]_vars

\* A status-200 answer to the first POST was followed by a sleep and a
\* second POST.
C7_Witness ==
  /\ NumSends(1) >= 2
  /\ SendsOf(1)[1].cls = "200"
  /\ NumSleeps(1) >= 1

\* C8: the health probe returns true exactly when the GET completed with
\* status 200; for an exception or another status it returns false, and it
\* never raises.
C8_HealthProbeTotal ==
  health.called
  => (/\ health.raised = NoError
      /\ health.ret <=> (health.outcome.raised = None
                           /\ health.outcome.status_code = 200))

C8_Witness ==
  /\ health.called
  /\ health.outcome.raised = "Timeout"
  /\ health.ret = FALSE
  /\ health.raised = NoError

\* C9: every POST of run_job is made with the timeout configured on the
\* client (max_timeout).
C9_PostUsesConfiguredTimeout ==
  \A c \in Callers :
    \A i \in 1..NumSends(c) : SendsOf(c)[i].timeout = client.max_timeout

\* C10: for the tryon variant an input whose mask_img is present and null
\* (model and cloth images valid) is accepted by the encoding, and the payload
\* has the three attachment slots, the mask slot with null content.
C10_NullMaskInput(c) ==
  /\ client.job_type = "tryon_job"
  /\ Called(c)
  /\ DOMAIN input_data[c] = {"model_img", "cloth_img", "mask_img", "category"}
  /\ input_data[c]["mask_img"] = None
  /\ input_data[c]["model_img"] = PilImg
  /\ input_data[c]["cloth_img"] = PilImg

C10_NullMaskKeepsSlot ==
  \A c \in Callers :
    C10_NullMaskInput(c)
    => (/\ ~(pc[c] = "raised" /\ NumSends(c) = 0)
        /\ DOMAIN files[c] =
             {"model_img_buffer", "cloth_img_buffer", "mask_img_buffer"}
        /\ files[c]["mask_img_buffer"] = <<"mask.png", None, "image/png">>
        /\ files[c]["model_img_buffer"] = <<"model.png", PngBytes, "image/png">>
        /\ files[c]["cloth_img_buffer"] = <<"cloth.png", PngBytes, "image/png">>)

C10_Witness ==
  /\ C10_NullMaskInput(1)
  /\ "mask_img_buffer" \in DOMAIN files[1]
  /\ NumSends(1) >= 1

\* The arguments of the requests.post call of every attempt of a call: files
\* and form_data are set once by process_inputs and passed unchanged.
PostRequest(c) ==
  [url |-> <<client.server_url, "/run_job">>, files |-> files[c],
   data |-> form_data[c], timeout |-> post_timeout(client)]

\* C11 (as claimed): for every variant, each request sent by run_job carries
\* exactly one form field, generation_data, holding a JSON-encoded object.
C11_EveryRequestHasGenerationData ==
  \A c \in Callers :
    NumSends(c) >= 1
    => (/\ DOMAIN PostRequest(c).data = {"generation_data"}
        /\ DOMAIN PostRequest(c).data["generation_data"] = {"json"})

\* C11 (amended): the requests of the face, mask, tryon, retouch and
\* model_generation variants carry exactly one form field, generation_data,
\* holding the JSON text of the variant's metadata object; the requests of
\* the handsfix variant carry no form field at all (data is None).
C11_MetadataKeys(job_type) ==
  CASE job_type = "face_job" -> {"inpaint_params", "generation_type", "prompt"}
    [] job_type = "mask_job" -> {"category"}
    [] job_type = "tryon_job" -> {"category"}
    [] job_type = "retouch_job" -> {"seed"}
    [] job_type = "model_generation_job" -> {"prompt", "seed"}

C11_GenerationDataExceptHandsFix ==
  \A c \in Callers :
    NumSends(c) >= 1
    => IF client.job_type = "handsfix_job"
         THEN PostRequest(c).data = NoneObj
         ELSE /\ DOMAIN PostRequest(c).data = {"generation_data"}
              /\ DOMAIN PostRequest(c).data["generation_data"] = {"json"}
              /\ DOMAIN PostRequest(c).data["generation_data"]["json"]
                   = C11_MetadataKeys(client.job_type)

C11_Witness ==
  /\ client.job_type = "handsfix_job"
  /\ NumSends(1) >= 2
  /\ PostRequest(1).data = NoneObj
  /\ "model_img_buffer" \in DOMAIN PostRequest(1).files

\* C12 (as claimed): every send attempt is preceded by its own encode, so a
\* call that has made k >= 1 attempts has performed k encodes.
C12_EncodePerAttempt ==
  \A c \in Callers : NumSends(c) >= 1 => NumEncodes(c) = NumSends(c)

\* C12 (amended): encoding is performed exactly once per call, before the
\* retry loop; a call performs one encode whatever the number of attempts it
\* makes, and the encode precedes every send.
C12_EncodeOncePerCall ==
  \A c \in Callers :
    Called(c) => (NumEncodes(c) = 1 /\ log[c][1].ev = "encode")

C12_Witness ==
  /\ NumSends(1) = 3
  /\ NumEncodes(1) = 1
  /\ pc[1] = "raised"

\* The sends and sleeps of a call, in order.
LoopEvents(c) == SelectSeq(log[c], LAMBDA e : e.ev \in {"send", "sleep"})

\* The call has reached the retry loop with a budget of at least one attempt.
LoopEntered(c) ==
  Called(c) /\ retry[c] >= 1 /\ (IsDummyClient \/ ValidInput(c))

\* C13: for a budget N >= 1 and any sequence of outcomes, a call that
\* reaches the loop makes at most N sends and terminates, either returning
\* the image of a successful attempt (Succeeded) or raising after exactly N
\* sends (Exhausted); nothing follows the success or the exhaustion; sends and
\* 2-second sleeps alternate, so each sleep stands between a failed attempt
\* and the next attempt, and the number of sleeps is the number of failed
\* attempts that were followed by another attempt.
C13_LoopShape(c) ==
  /\ NumSends(c) <= retry[c]
  /\ \A i \in 1..Len(LoopEvents(c)) :
       IF i % 2 = 1 THEN LoopEvents(c)[i].ev = "send"
       ELSE LoopEvents(c)[i].ev = "sleep" /\ LoopEvents(c)[i].timeout = 2
  /\ pc[c] = "attempting" => Len(LoopEvents(c)) % 2 = 0
  /\ pc[c] \in {"sleeping", "returned", "raised"} => Len(LoopEvents(c)) % 2 = 1
  /\ pc[c] = "sleeping" => NumSends(c) < retry[c]
  /\ pc[c] = "returned"
       => (result[c] = PilImg /\ NumSleeps(c) = attempt[c]
             /\ NumSends(c) = attempt[c] + 1)
  /\ pc[c] = "raised"
       => (NumSends(c) = retry[c] /\ attempt[c] = retry[c]
             /\ NumSleeps(c) = attempt[c] - 1 /\ error[c] # NoError
             /\ result[c] = None)

C13_BoundedRetryLoop ==
  /\ [](\A c \in Callers : LoopEntered(c) => C13_LoopShape(c))
  /\ [][\A c \in Callers :
          Terminated(c) => (pc'[c] = pc[c] /\ log'[c] = log[c]
                              /\ result'[c] = result[c])]_vars
  /\ \A c \in Callers : LoopEntered(c) ~> Terminated(c)

C13_Witness ==
  /\ ~IsDummyClient
  /\ retry[1] = 3
  /\ pc[1] = "returned"
  /\ NumSends(1) = 3
  /\ NumSleeps(1) = 2

\* C15: a call with a retry budget of 0 or less on a valid input encodes the
\* input (JobClient; the dummy has no encoding), makes no send and no sleep,
\* and returns without a result image and without raising: it ends neither
\* with a decoded image nor with an error.
C15_NoBudget(c) ==
  Called(c) /\ retry[c] <= 0 /\ (IsDummyClient \/ ValidInput(c))

C15_NoBudgetReturnsNothing ==
  \A c \in Callers :
    C15_NoBudget(c)
    => (/\ pc[c] = "returned"
        /\ result[c] = None
        /\ error[c] = NoError
        /\ NumSends(c) = 0
        /\ NumSleeps(c) = 0
        /\ attempt[c] = 0
        /\ ~IsDummyClient
             => (/\ NumEncodes(c) = 1
                 /\ files[c] = process_inputs(client.job_class, input_data[c]).files
                 /\ form_data[c]
                      = process_inputs(client.job_class, input_data[c]).form_data))

C15_Witness ==
  /\ ~IsDummyClient
  /\ C15_NoBudget(1)
  /\ retry[1] = -1
  /\ pc[1] = "returned"
  /\ result[1] = None
  /\ "model_img_buffer" \in DOMAIN files[1]

\* The state that belongs to one call: its arguments, its locals and what it
\* has done.
CallLocal(c) ==
  <<pc[c], input_data[c], retry[c], attempt[c], files[c], form_data[c],
    response[c], result[c], error[c], log[c]>>

\* The state of a call as a function of its own input, its own retry budget
\* and the answers to its own requests.
C14_OwnOutcome(c) ==
  LET enc == process_inputs(client.job_class, input_data[c])
      last == TryBody(response[c])
  IN /\ files[c] = enc.files
     /\ form_data[c] = enc.form_data
     /\ ~enc.ok => (pc[c] = "raised" /\ error[c] = enc.error /\ NumSends(c) = 0)
     /\ (enc.ok /\ retry[c] <= 0) => (pc[c] = "returned" /\ NumSends(c) = 0)
     /\ (enc.ok /\ retry[c] >= 1)
        => (/\ NumSends(c) <= retry[c]
            /\ pc[c] = "attempting"
                 => (attempt[c] = NumSends(c) /\ NumSleeps(c) = NumSends(c))
            /\ pc[c] = "sleeping"
                 => (/\ attempt[c] = NumSends(c)
                     /\ NumSleeps(c) = NumSends(c) - 1
                     /\ ~last.ok /\ error[c] = last.error)
            /\ pc[c] = "returned"
                 => (/\ attempt[c] = NumSends(c) - 1
                     /\ NumSleeps(c) = NumSends(c) - 1
                     /\ last.ok /\ result[c] = last.image)
            /\ pc[c] = "raised"
                 => (/\ attempt[c] = retry[c]
                     /\ NumSends(c) = retry[c]
                     /\ NumSleeps(c) = retry[c] - 1
                     /\ ~last.ok /\ error[c] = last.error
                     /\ result[c] = None))

\* C14: two run_job calls running concurrently on one JobClient instance do
\* not interfere: under every interleaving each call's attempt counter, sleep
\* count and outcome are determined by its own input, its own retry budget and
\* the answers to its own requests; a step of one call changes nothing of the
\* other call; and no step after construction changes the client's fields.
C14_CallsDoNotInterfere ==
  /\ [](\A c \in Callers : Called(c) => C14_OwnOutcome(c))
  /\ [][\A c, d \in Callers :
          (c # d /\ CallLocal(c)' # CallLocal(c)) => CallLocal(d)' = CallLocal(d)]_vars
  /\ [][client.constructed => client' = client]_vars

\* Both calls are in progress at once, with different budgets, and have
\* made different numbers of attempts.
C14_Witness ==
  /\ pc[1] = "sleeping"
  /\ pc[2] = "attempting"
  /\ retry[1] = 2
  /\ retry[2] = 1
  /\ attempt[1] = 1
  /\ attempt[2] = 0
  /\ input_data[1] # input_data[2]

====
